---- MODULE Spec2Model ----
(***************************************************************************)
(* Model of the pack data iterator of git-odb (src/pack/data/iter.rs):      *)
(* the streaming decoder `Iter` (new_from_header, checksum, next_inner,     *)
(* size_hint, next) and the capturing reader `PassThrough` (fill_buf,       *)
(* consume, read).                                                          *)
(*                                                                          *)
(* The byte source is a finite stream read through a buffered reader.  Its  *)
(* bytes are tagged by their position (byte i of the pack has value i), so  *)
(* a captured range identifies the bytes it was taken from.  What the bytes *)
(* of an entry mean (header length, declared size, length of the deflate    *)
(* stream, length of its inflated output, corruption) is revealed when the  *)
(* decoder reaches the entry: see WireEntries.                              *)
(***************************************************************************)
EXTENDS Integers, Sequences, FiniteSets, TLC

(***************************************************************************)
(* Bounds of the model.                                                     *)
(***************************************************************************)
MaxObjects == 2
MaxHeaderSize == 2
MaxCompressed == 2
MaxSize == 1
MaxCalls == 4
BufCap == 2
PTLen == 4
MaxByte == 1
MaxPeeks == 2

(***************************************************************************)
(* Program constants.                                                       *)
(***************************************************************************)
PreambleLen == 12
InitialOffset == 12
U16 == 65536

VARIABLES
    stream,        \* the input: length in bytes, preamble, whether the trailer matches
    status,        \* "fresh", "open", "new_err", "panicked_new", "panicked_next", "panicked_checksum"
    read,          \* Iter.read: the buffered byte source
    decompressor,  \* Iter.decompressor: Option<Inflate>
    offset,        \* Iter.offset
    had_error,     \* Iter.had_error
    kind,          \* Iter.kind
    objects_left,  \* Iter.objects_left
    hash,          \* Iter.hash: Option<owned::Id>
    verify,        \* Iter.verify
    hist,          \* what the caller has seen: the latest results of next() and counters
    pt,            \* a PassThrough driven directly through its BufRead/Read interface
    pt_status      \* of pt: st ("idle", "ok", "panicked"), the last call, fill_buf calls repeated without a consume

vars == <<stream, status, read, decompressor, offset, had_error, kind,
          objects_left, hash, verify, hist, pt, pt_status>>

iter_vars == <<stream, status, read, decompressor, offset, had_error, kind,
               objects_left, hash, verify, hist>>

Min(a, b) == IF a < b THEN a ELSE b

(***************************************************************************)
(* Option values.  None and Some share one record shape.                    *)
(***************************************************************************)
NoInflate == [some |-> FALSE, total_in |-> 0]
SomeInflate(d) == [some |-> TRUE, total_in |-> d.total_in]
NoId == [some |-> FALSE, id |-> 0]

(***************************************************************************)
(* The buffered byte source R: io::BufRead.  data is the whole stream, pos  *)
(* the number of bytes consumed from it, avail the number of bytes          *)
(* currently held in its buffer.                                            *)
(***************************************************************************)
NewReader(data) == [data |-> data, pos |-> 0, avail |-> 0]

Buffer(r) == SubSeq(r.data, r.pos + 1, r.pos + r.avail)

R_fill_buf(r) ==
    IF r.avail = 0
    THEN [r EXCEPT !.avail = Min(BufCap, Len(r.data) - r.pos)]
    ELSE r

R_consume(r, amt) ==
    LET k == Min(amt, r.avail)
    IN  [r EXCEPT !.pos = r.pos + k, !.avail = r.avail - k]

RECURSIVE read_exact(_, _)
read_exact(r, n) ==
    IF n = 0 THEN [ok |-> TRUE, read |-> r]
    ELSE LET f == R_fill_buf(r)
             m == Min(n, f.avail)
         IN  IF f.avail = 0
             THEN [ok |-> FALSE, read |-> f]
             ELSE read_exact(R_consume(f, m), n - m)

(***************************************************************************)
(* PassThrough<R, W>: the capturing reader.                                 *)
(***************************************************************************)
PassThrough(r, w) == [read |-> r, write |-> w]

\* faulty variant: the bytes are mirrored into the sink when they are peeked
PT_fill_buf_Mirror(p) ==
    [read |-> R_fill_buf(p.read), write |-> p.write \o Buffer(R_fill_buf(p.read))]

PT_fill_buf(p) == [p EXCEPT !.read = R_fill_buf(p.read)]

\* faulty variant: the inner source is told first, the bytes are copied afterwards
PT_consume_ForwardFirst(p, amt) ==
    LET r1  == R_fill_buf(p.read)
        r2  == R_fill_buf(R_consume(r1, amt))
        buf == Buffer(r2)
    IN  IF amt > Len(Buffer(r1))
        THEN [panic |-> TRUE, pt |-> [p EXCEPT !.read = r1]]
        ELSE [panic |-> FALSE,
              pt |-> [read  |-> R_consume(r1, amt),
                      write |-> p.write \o SubSeq(buf, 1, Min(amt, Len(buf)))]]

PT_consume(p, amt) ==
    LET r1  == R_fill_buf(p.read)
        buf == Buffer(r1)
    IN  IF amt > Len(buf)
        THEN [panic |-> TRUE, pt |-> [p EXCEPT !.read = r1]]
        ELSE [panic |-> FALSE,
              pt |-> [read  |-> R_consume(r1, amt),
                      write |-> p.write \o SubSeq(buf, 1, amt)]]

PT_read(p, n) ==
    LET f == R_fill_buf(p.read)
    IN  [p EXCEPT !.read = R_consume(f, Min(n, f.avail))]

PTIdle == [st |-> "idle", last |-> "none", peeks |-> 0]

(***************************************************************************)
(* The inflater and its reader.  InflateReader fills the buffer of its      *)
(* inner reader, lets the decompressor take what it needs from it and marks *)
(* that many bytes consumed, until the deflate stream (need bytes) ends.    *)
(***************************************************************************)
unwrap_or_default(d) == IF d.some THEN [total_in |-> d.total_in] ELSE [total_in |-> 0]

reset(d) == [d EXCEPT !.total_in = 0]

\* faulty variant: the reused decompressor is not reset
TakeAndReset_NoReset(d) == unwrap_or_default(d)

TakeAndReset(d) == reset(unwrap_or_default(d))

RECURSIVE InflateRun(_, _, _)
InflateRun(p, d, need) ==
    IF need = 0 THEN [err |-> FALSE, pt |-> p, dec |-> d]
    ELSE LET f == PT_fill_buf(p)
             n == Min(need, f.read.avail)
         IN  IF f.read.avail = 0
             THEN [err |-> TRUE, pt |-> f, dec |-> d]
             ELSE InflateRun(PT_consume(f, n).pt,
                             [d EXCEPT !.total_in = d.total_in + n],
                             need - n)

(***************************************************************************)
(* pack::data::parse::header: the 12-byte preamble is a signature, a        *)
(* big-endian version and a big-endian entry count.  Kind enumerates the    *)
(* recognised versions (V2, V3); any other version is a parse error.        *)
(***************************************************************************)
Versions == {1, 2, 3}

header_data(s) == [magic_ok |-> s.magic_ok, version |-> s.version, num_objects |-> s.num_objects]

parse_header(h) ==
    IF ~h.magic_ok THEN [ok |-> FALSE, kind |-> "none", num_objects |-> 0]
    ELSE IF h.version = 2 THEN [ok |-> TRUE, kind |-> "V2", num_objects |-> h.num_objects]
    ELSE IF h.version = 3 THEN [ok |-> TRUE, kind |-> "V3", num_objects |-> h.num_objects]
    ELSE [ok |-> FALSE, kind |-> "none", num_objects |-> 0]

(***************************************************************************)
(* The streams the decoder is run on.                                       *)
(***************************************************************************)
MaxStreamLen == PreambleLen + MaxObjects * (MaxHeaderSize + MaxCompressed)

\* Lengths: cut inside the preamble, ending with the preamble, cut inside the
\* first entry, and long enough for every declared entry.
StreamLens ==
    {PreambleLen - 1, PreambleLen, PreambleLen + MaxHeaderSize, MaxStreamLen}

Streams ==
    [len         : StreamLens,
     magic_ok    : BOOLEAN,
     version     : Versions,
     num_objects : 0 .. MaxObjects,
     trailer_ok  : BOOLEAN]

\* The next entry on the wire, as the decoder will find it: header_size bytes
\* of entry header stating the decompressed size `declared`, then csize bytes
\* of deflate stream that inflate to isize bytes.  fault: the header does not
\* decode ("header"), or the deflate stream is corrupt ("zlib").
WireEntries ==
    [header_size : 1 .. MaxHeaderSize, declared : 0 .. MaxSize,
     csize : 1 .. MaxCompressed, isize : 0 .. MaxSize, fault : {"none"}]
    \cup
    [header_size : {1}, declared : {0}, csize : {1}, isize : {0}, fault : {"header"}]
    \cup
    [header_size : 1 .. MaxHeaderSize, declared : {0},
     csize : 1 .. MaxCompressed, isize : {0}, fault : {"zlib"}]

(***************************************************************************)
(* Entries and results of next().                                           *)
(***************************************************************************)
NoEntry == [header_size |-> 0, pack_offset |-> 0, compressed |-> <<>>, decompressed |-> <<>>]

Result(tag, entry, declared, total_in) ==
    [tag |-> tag, entry |-> entry, declared |-> declared, total_in |-> total_in]

\* No step attempted yet.
NoWire == [header_size |-> 0, declared |-> 0, csize |-> 0, isize |-> 0, fault |-> "unread"]

NoHist ==
    [last |-> Result("NoCall", NoEntry, 0, 0), last_ok |-> NoEntry, prev_ok |-> NoEntry,
     n_calls |-> 0, n_some |-> 0, n_ok |-> 0, n_err |-> 0, wire |-> NoWire]

Record(h, r) ==
    [last    |-> r,
     last_ok |-> IF r.tag = "Ok" THEN r.entry ELSE h.last_ok,
     prev_ok |-> IF r.tag = "Ok" THEN h.last_ok ELSE h.prev_ok,
     n_calls |-> h.n_calls + 1,
     n_some  |-> h.n_some + (IF r.tag \in {"Ok", "Err"} THEN 1 ELSE 0),
     n_ok    |-> h.n_ok + (IF r.tag = "Ok" THEN 1 ELSE 0),
     n_err   |-> h.n_err + (IF r.tag = "Err" THEN 1 ELSE 0),
     wire    |-> h.wire]

(***************************************************************************)
(* Iter::new_from_header                                                    *)
(***************************************************************************)
\* faulty variant: the assertion on the kind is dropped
KindAssert_Off(k) == TRUE

KindAssert(k) == k = "V2"

new_from_header(v) ==
    /\ status = "fresh"
    /\ LET rd == read_exact(read, PreambleLen)
           ph == parse_header(header_data(stream))
       IN  /\ read' = rd.read
           /\ IF ~rd.ok \/ ~ph.ok
              THEN /\ status' = "new_err"
                   /\ UNCHANGED <<decompressor, offset, had_error, kind, objects_left, hash, verify>>
              ELSE IF ~KindAssert(ph.kind)
              THEN /\ status' = "panicked_new"
                   /\ UNCHANGED <<decompressor, offset, had_error, kind, objects_left, hash, verify>>
              ELSE /\ status' = "open"
                   /\ decompressor' = NoInflate
                   /\ offset' = InitialOffset
                   /\ had_error' = FALSE
                   /\ kind' = ph.kind
                   /\ objects_left' = ph.num_objects
                   /\ hash' = NoId
                   /\ verify' = v
    /\ UNCHANGED <<stream, hist, pt, pt_status>>

(***************************************************************************)
(* Iter::checksum                                                           *)
(***************************************************************************)
\* faulty variant: unwrap_or_default instead of expect
checksum_OrDefault == [panic |-> FALSE, id |-> hash.id]

checksum == IF hash.some THEN [panic |-> FALSE, id |-> hash.id] ELSE [panic |-> TRUE, id |-> 0]

call_checksum ==
    /\ status = "open"
    /\ status' = IF checksum.panic THEN "panicked_checksum" ELSE status
    /\ UNCHANGED <<stream, read, decompressor, offset, had_error, kind, objects_left,
                   hash, verify, hist, pt, pt_status>>

(***************************************************************************)
(* pack::data::Header::from_read: reads the variable-length entry header.   *)
(***************************************************************************)
from_read(r, e) ==
    LET rd == read_exact(r, IF e.fault = "header" THEN 1 ELSE e.header_size)
    IN  [ok |-> rd.ok /\ e.fault # "header",
         read |-> rd.read,
         decompressed_size |-> e.declared,
         header_size |-> e.header_size]

(***************************************************************************)
(* Iter::next_inner                                                         *)
(***************************************************************************)
\* faulty variant: the size assertion is dropped
SizeAssert_Off(bytes_copied, decompressed_size) == TRUE

SizeAssert(bytes_copied, decompressed_size) == bytes_copied = decompressed_size

CaptureAssert(compressed_size, compressed) == compressed_size = Len(compressed)

\* faulty variant: the header bytes are not counted
AdvanceOffset_NoHeader(off, header_size, compressed_size) == off + compressed_size

\* faulty variant: the compressed bytes are not counted
AdvanceOffset_NoCompressed(off, header_size, compressed_size) == off + header_size

AdvanceOffset(off, header_size, compressed_size) == off + header_size + compressed_size

AsU16(n) == n % U16

Output(n) == [i \in 1 .. n |-> 0]

Outcome(tag, r, d, off, entry, declared, total_in) ==
    [tag |-> tag, read |-> r, decompressor |-> d, offset |-> off,
     result |-> Result(tag, entry, declared, total_in)]

next_inner(e) ==
    LET hdr == from_read(read, e)
    IN  IF ~hdr.ok
        THEN Outcome("Err", hdr.read, decompressor, offset, NoEntry, 0, 0)
        ELSE
        LET d0  == TakeAndReset(decompressor)
            run == InflateRun(PassThrough(hdr.read, <<>>), d0, e.csize)
            bytes_copied == e.isize
        IN  IF run.err \/ e.fault = "zlib"
            THEN Outcome("Err", run.pt.read, NoInflate, offset, NoEntry, 0, 0)
            ELSE IF ~SizeAssert(bytes_copied, hdr.decompressed_size)
            THEN Outcome("Panic", run.pt.read, NoInflate, offset, NoEntry, 0, 0)
            ELSE
            LET pack_offset     == offset
                compressed_size == run.dec.total_in
                new_offset      == AdvanceOffset(offset, hdr.header_size, compressed_size)
                compressed      == run.pt.write
            IN  IF ~CaptureAssert(compressed_size, compressed)
                THEN Outcome("Panic", run.pt.read, SomeInflate(run.dec), new_offset, NoEntry, 0, 0)
                ELSE Outcome("Ok", run.pt.read, SomeInflate(run.dec), new_offset,
                             [header_size  |-> AsU16(hdr.header_size),
                              pack_offset  |-> pack_offset,
                              compressed   |-> compressed,
                              decompressed |-> Output(bytes_copied)],
                             hdr.decompressed_size, compressed_size)

(***************************************************************************)
(* Iterator for Iter: size_hint and next                                    *)
(***************************************************************************)
size_hint == <<objects_left, objects_left>>

\* faulty variant: the sticky flag is not looked at
NextReturnsNone_NoSticky == objects_left = 0

\* faulty variant: the remaining count is not looked at
NextReturnsNone_NoCount == had_error

NextReturnsNone == had_error \/ objects_left = 0

\* faulty variant: the count is left alone
Decrement_Skip(n) == n

Decrement(n) == n - 1

next(e) ==
    /\ status = "open"
    /\ hist.n_calls < MaxCalls
    /\ IF NextReturnsNone
       THEN /\ hist' = Record(hist, Result("None", NoEntry, 0, 0))
            /\ UNCHANGED <<status, read, decompressor, offset, had_error, objects_left>>
       ELSE LET o == next_inner(e)
            IN  /\ objects_left' = Decrement(objects_left)
                /\ read' = o.read
                /\ decompressor' = o.decompressor
                /\ offset' = o.offset
                /\ IF o.tag = "Panic"
                   THEN /\ status' = "panicked_next"
                        /\ hist' = [hist EXCEPT !.wire = e]
                        /\ UNCHANGED had_error
                   ELSE /\ had_error' = (o.tag = "Err")
                        /\ hist' = [Record(hist, o.result) EXCEPT !.wire = e]
                        /\ UNCHANGED status
    /\ UNCHANGED <<stream, kind, hash, verify, pt, pt_status>>

(***************************************************************************)
(* The decoder run on a stream.                                             *)
(***************************************************************************)
Init ==
    /\ stream \in Streams
    /\ status = "fresh"
    /\ read = NewReader([i \in 1 .. stream.len |-> i])
    /\ decompressor = NoInflate
    /\ offset = 0
    /\ had_error = FALSE
    /\ kind = "none"
    /\ objects_left = 0
    /\ hash = NoId
    /\ verify = FALSE
    /\ hist = NoHist
    /\ pt = PassThrough(NewReader(<<>>), <<>>)
    /\ pt_status = PTIdle

Next ==
    \/ \E v \in BOOLEAN : new_from_header(v)
    \/ \E e \in WireEntries : next(e)
    \/ call_checksum

Spec == Init /\ [][Next]_vars

(***************************************************************************)
(* The capturing reader on its own: a PassThrough over a buffered source of *)
(* PTLen arbitrary bytes and an empty sink, driven by arbitrary calls of    *)
(* its BufRead interface (SpecPT) and of its Read interface as well         *)
(* (SpecPTRead).  The decoder is not involved.                              *)
(***************************************************************************)
NoStream == [len |-> 0, magic_ok |-> FALSE, version |-> 1, num_objects |-> 0, trailer_ok |-> FALSE]

InitPT ==
    /\ stream = NoStream
    /\ status = "fresh"
    /\ read = NewReader(<<>>)
    /\ decompressor = NoInflate
    /\ offset = 0
    /\ had_error = FALSE
    /\ kind = "none"
    /\ objects_left = 0
    /\ hash = NoId
    /\ verify = FALSE
    /\ hist = NoHist
    /\ \E data \in [1 .. PTLen -> 0 .. MaxByte] : pt = PassThrough(NewReader(data), <<>>)
    /\ pt_status = [st |-> "ok", last |-> "none", peeks |-> 0]

fill_buf ==
    /\ pt_status.st = "ok"
    /\ pt_status.last = "fill" => pt_status.peeks < MaxPeeks
    /\ pt' = PT_fill_buf(pt)
    /\ pt_status' = [st |-> "ok", last |-> "fill",
                     peeks |-> IF pt_status.last = "fill" THEN pt_status.peeks + 1 ELSE pt_status.peeks]
    /\ UNCHANGED iter_vars

consume(amt) ==
    /\ pt_status.st = "ok"
    /\ LET c == PT_consume(pt, amt)
       IN  /\ pt' = c.pt
           /\ pt_status' = [pt_status EXCEPT !.st = IF c.panic THEN "panicked" ELSE "ok",
                                             !.last = "consume"]
    /\ UNCHANGED iter_vars

pt_read(n) ==
    /\ pt_status.st = "ok"
    /\ pt' = PT_read(pt, n)
    /\ pt_status' = [pt_status EXCEPT !.last = "read"]
    /\ UNCHANGED iter_vars

NextPT ==
    \/ fill_buf
    \/ \E amt \in 0 .. BufCap : consume(amt)

SpecPT == InitPT /\ [][NextPT]_vars

NextPTRead ==
    \/ fill_buf
    \/ \E amt \in 0 .. BufCap : consume(amt)
    \/ \E n \in 1 .. BufCap : pt_read(n)

SpecPTRead == InitPT /\ [][NextPTRead]_vars

(***************************************************************************)
(* Properties.                                                              *)
(***************************************************************************)

\* C1 (sticky failure): once a call of next() has returned Some(Err), every
\* later call returns None: no further Err, no further Ok, and no later call
\* reaches the decode step.
C1_StickyFailure ==
    [][hist.n_err > 0 =>
          /\ hist'.n_err = hist.n_err
          /\ hist'.n_ok = hist.n_ok
          /\ status' # "panicked_next"
          /\ (hist'.n_calls # hist.n_calls => hist'.last.tag = "None")]_vars

C1_Witness ==
    /\ hist.n_err = 1
    /\ hist.n_calls >= 3
    /\ hist.last.tag = "None"
    /\ objects_left > 0

\* C2 (offset contiguity): the first entry yielded has pack_offset 12, and
\* each later yielded entry starts where the entry yielded before it ends:
\* at pack_offset + header_size + compressed.len() of that entry.
C2_OffsetContiguity ==
    /\ hist.n_ok = 1 => hist.last_ok.pack_offset = PreambleLen
    /\ hist.n_ok >= 2 =>
          hist.last_ok.pack_offset =
              hist.prev_ok.pack_offset + hist.prev_ok.header_size + Len(hist.prev_ok.compressed)

C2_Witness ==
    /\ hist.n_ok = 2
    /\ hist.prev_ok.header_size = 2
    /\ Len(hist.prev_ok.compressed) = 2
    /\ hist.last_ok.pack_offset = PreambleLen + 4

\* C3 (checksum after exhaustion): after exactly k calls of next() that each
\* returned Some(Ok) on a stream declaring k entries, checksum() returns an Id.
C3_ChecksumAfterExhaustion ==
    (status = "open" /\ hist.n_calls = stream.num_objects /\ hist.n_ok = stream.num_objects)
        => ~checksum.panic

\* C4 (checksum gating): while entries remain to be pulled or a step has
\* failed, checksum() panics and returns no Id.
C4_ChecksumGating ==
    (status = "open" /\ (objects_left > 0 \/ had_error)) => checksum.panic

C4_Witness ==
    /\ status = "panicked_checksum"
    /\ hist.n_ok = 1
    /\ objects_left > 0

\* C5 (unsupported version): a well-formed preamble whose version is not the
\* supported one makes new_from_header return Err: no panic, no decoder.
C5_UnsupportedVersionIsErr ==
    (status # "fresh" /\ stream.len >= PreambleLen /\ stream.magic_ok /\ stream.version # 2)
        => status = "new_err"

\* C6 (size fidelity): an entry returned as Some(Ok) has decompressed.len()
\* equal to the size declared in its header and compressed.len() equal to the
\* decompressor's total_in for that entry.
C6_SizeFidelity ==
    hist.last.tag = "Ok" =>
        /\ Len(hist.last.entry.decompressed) = hist.last.declared
        /\ Len(hist.last.entry.compressed) = hist.last.total_in

C6_Witness ==
    /\ hist.last.tag = "Ok"
    /\ hist.last.declared = 1
    /\ hist.last.total_in = 2

\* C7 (attempt budget): every call of next() that returns Some, Ok or Err,
\* lowers objects_left by one, so after n such results on a stream declaring k
\* entries k - n are left; the count is lowered before the decode step, so a
\* step that aborts has lowered it too.
C7_AttemptBudget ==
    /\ status \in {"open", "panicked_checksum"} =>
          objects_left = stream.num_objects - hist.n_some
    /\ status = "panicked_next" =>
          objects_left = stream.num_objects - hist.n_some - 1

C7_Witness ==
    /\ status = "open"
    /\ hist.n_some = 2
    /\ hist.n_err = 1
    /\ objects_left = stream.num_objects - 2

\* C8 as stated (exact remaining count): the count reported by size_hint() is
\* the number of further calls of next() that return Some; so whenever the
\* next call returns None, it reports 0.
C8_ExactRemaining ==
    (status = "open" /\ NextReturnsNone) => size_hint[1] = 0

\* C8 as amended (remaining attempt budget): both bounds of size_hint() are
\* objects_left, an upper bound on the further Some results: a call returns
\* Some only while the count is positive and lowers it by one, a call that
\* returns None leaves it as it is, and None is returned at a positive count
\* only after a call has returned an error.
C8_RemainingIsUpperBound ==
    [][(status = "open" /\ hist'.n_calls = hist.n_calls + 1) =>
          /\ size_hint[1] = size_hint[2]
          /\ hist'.last.tag # "None" =>
                (size_hint[1] > 0 /\ size_hint'[1] = size_hint[1] - 1)
          /\ hist'.last.tag = "None" =>
                (size_hint' = size_hint /\ (size_hint[1] = 0 \/ hist.n_err > 0))
          /\ (size_hint[1] > 0 /\ hist.n_err = 0) => hist'.last.tag # "None"]_vars

C8_Witness ==
    /\ status = "open"
    /\ hist.last.tag = "None"
    /\ had_error
    /\ size_hint[1] > 0

\* C9 (verification on request): with verify = true the last declared entry
\* is returned as Ok only if the trailing checksum of the stream is correct.
C9_VerifiedBeforeLastEntry ==
    (status = "open" /\ verify /\ stream.num_objects > 0
        /\ hist.n_ok = stream.num_objects /\ hist.last.tag = "Ok")
        => stream.trailer_ok

\* C10 (capturing reader fidelity): after any sequence of fill_buf and
\* consume(n) calls, the sink holds exactly the bytes consumed from the inner
\* source, in order, however many fill_buf calls were not followed by a consume.
C10_CaptureFidelity ==
    pt_status.st = "ok" => pt.write = SubSeq(pt.read.data, 1, pt.read.pos)

C10_Witness ==
    /\ pt_status.st = "ok"
    /\ pt_status.peeks >= 1
    /\ Len(pt.write) >= 3
    /\ pt.write[1] # pt.write[2]

\* C11 (bounded attempts): on a stream declaring k entries, calls of next()
\* return at most k results that are not None (so at most k Ok entries), and
\* every call after the k-th returns None without reaching the decode step.
C11_BoundedAttempts ==
    [][/\ hist'.n_some <= stream.num_objects
       /\ hist'.n_ok <= stream.num_objects
       /\ (status = "open" /\ hist.n_calls >= stream.num_objects) =>
             /\ status' # "panicked_next"
             /\ hist'.n_some = hist.n_some
             /\ (hist'.n_calls # hist.n_calls => hist'.last.tag = "None")]_vars

C11_Witness ==
    /\ status = "open"
    /\ stream.num_objects >= 1
    /\ hist.n_some = stream.num_objects
    /\ hist.n_calls = stream.num_objects + 2
    /\ hist.last.tag = "None"

\* C12 (initial state): a decoder returned by new_from_header has offset 12,
\* objects_left equal to the count declared in the preamble, no decompressor,
\* no hash, had_error clear and kind V2, and exactly 12 bytes of the byte
\* source have been consumed.
C12_InitialState ==
    [][(status = "fresh" /\ status' = "open") =>
          /\ offset' = 12
          /\ objects_left' = stream.num_objects
          /\ ~decompressor'.some
          /\ ~hash'.some
          /\ ~had_error'
          /\ kind' = "V2"
          /\ stream.version = 2
          /\ read.pos = 0
          /\ read'.pos = 12]_vars

C12_Witness ==
    /\ status = "open"
    /\ hist.n_calls = 0
    /\ objects_left = 2
    /\ verify
    /\ read.pos = 12

\* C13 (consistency violations are fatal): a step whose deflate stream
\* inflates to a number of bytes other than the size declared in the header
\* returns no entry, and returns an error only if the byte source ended
\* first; otherwise it aborts, and an aborted step returns nothing.  Every
\* entry that is returned has the declared number of decompressed bytes and
\* the compressed bytes of its deflate stream, no more and no fewer.
C13_ConsistencyFatal ==
    [][(status = "open" /\ objects_left' # objects_left) =>
          LET w == hist'.wire
          IN  /\ (w.fault = "none" /\ w.isize # w.declared) =>
                    /\ hist'.n_ok = hist.n_ok
                    /\ hist'.n_err # hist.n_err => read'.pos = stream.len
                    /\ hist'.n_err = hist.n_err => status' = "panicked_next"
              /\ status' = "panicked_next" =>
                    /\ hist'.n_calls = hist.n_calls
                    /\ hist'.last = hist.last
                    /\ had_error' = had_error
              /\ hist'.n_ok # hist.n_ok =>
                    /\ w.isize = w.declared
                    /\ Len(hist'.last.entry.decompressed) = w.declared
                    /\ Len(hist'.last.entry.compressed) = w.csize]_vars

C13_Witness ==
    /\ status = "panicked_next"
    /\ hist.n_ok = 1
    /\ hist.wire.fault = "none"
    /\ hist.wire.isize # hist.wire.declared

\* C14 (decompressor reuse with reset): the decompressor, reused or
\* default-created, is reset before an entry is inflated, so the compressed
\* size counted for an entry is the length of that entry's deflate stream
\* alone, also when an earlier entry went through the same decompressor: a
\* well-formed entry that lies wholly within the byte source is returned with
\* that count.  After every successful step the decompressor is stored back.
C14_ResetAndStore ==
    [][(status = "open" /\ objects_left' # objects_left) =>
          LET w == hist'.wire
          IN  /\ (/\ w.fault = "none"
                  /\ w.isize = w.declared
                  /\ read.pos + w.header_size + w.csize <= stream.len) =>
                    /\ hist'.n_ok = hist.n_ok + 1
                    /\ hist'.last.total_in = w.csize
              /\ hist'.n_ok = hist.n_ok + 1 =>
                    /\ decompressor'.some
                    /\ decompressor'.total_in = w.csize
                    /\ decompressor'.total_in = Len(hist'.last.entry.compressed)]_vars

C14_Witness ==
    /\ status = "open"
    /\ hist.n_ok = 2
    /\ Len(hist.prev_ok.compressed) = 2
    /\ decompressor.some
    /\ decompressor.total_in = 1

\* C15 (peek does not capture, capture precedes forwarding): fill_buf leaves
\* the sink as it is and does not advance the inner source; consume(n)
\* appends to the sink exactly the first n bytes the inner source held in its
\* buffer before it was told to consume them, and advances the inner source
\* by those n bytes.
C15_PeekAndCapture ==
    [][/\ pt_status'.last = "fill" =>
             /\ pt'.write = pt.write
             /\ pt'.read.pos = pt.read.pos
       /\ (pt_status'.last = "consume" /\ pt_status'.st = "ok") =>
             /\ pt'.read.pos >= pt.read.pos
             /\ pt'.read.pos - pt.read.pos <= R_fill_buf(pt.read).avail
             /\ pt'.write =
                    pt.write \o SubSeq(Buffer(R_fill_buf(pt.read)), 1, pt'.read.pos - pt.read.pos)]_vars

C15_Witness ==
    /\ pt_status.st = "ok"
    /\ pt_status.last = "consume"
    /\ pt_status.peeks >= 1
    /\ pt.read.avail > 0
    /\ Len(pt.write) >= 2
    /\ pt.write[Len(pt.write)] # pt.read.data[pt.read.pos + 1]

\* C16 (capture covers every way of reading): after any sequence of fill_buf,
\* consume and read calls on the capturing reader, the sink holds exactly the
\* bytes by which the inner source has been advanced.
C16_CaptureCoversRead ==
    pt_status.st # "panicked" =>
        /\ Len(pt.write) = pt.read.pos
        /\ \A i \in 1 .. Len(pt.write) : pt.write[i] = pt.read.data[i]

\* C17 (offset tracks the cursor): between pulls, as long as no step has
\* failed, the running offset is the number of bytes consumed from the byte
\* source since its start: 12 after construction, and the offset before plus
\* the header bytes plus the captured compressed bytes after each successful
\* step.  A step that fails leaves the running offset at its value before the
\* step.
C17_OffsetTracksCursor ==
    [][/\ (status' = "open" /\ ~had_error') => offset' = read'.pos
       /\ (status = "fresh" /\ status' = "open") => offset' = 12
       /\ hist'.n_ok = hist.n_ok + 1 =>
             offset' = offset + hist'.last.entry.header_size
                              + Len(hist'.last.entry.compressed)
       /\ hist'.n_err = hist.n_err + 1 => offset' = offset]_vars

C17_Witness ==
    /\ status = "open"
    /\ had_error
    /\ hist.n_ok = 1
    /\ offset = hist.last_ok.pack_offset + hist.last_ok.header_size + Len(hist.last_ok.compressed)
    /\ offset < read.pos

\* C18 (a pull that returns None changes nothing): called with had_error set
\* or objects_left = 0, next() returns None and leaves offset, objects_left,
\* had_error, hash, the stored decompressor and the byte source as they are;
\* a stream declaring 0 entries is never read past its preamble.
C18_NoneChangesNothing ==
    [][/\ (status = "open" /\ (had_error \/ objects_left = 0)) =>
             /\ UNCHANGED <<offset, objects_left, had_error, hash, decompressor, read>>
             /\ status' # "panicked_next"
             /\ hist'.n_calls # hist.n_calls => hist'.last.tag = "None"
       /\ (hist'.n_calls # hist.n_calls /\ hist'.last.tag = "None") =>
             UNCHANGED <<offset, objects_left, had_error, hash, decompressor, read>>
       /\ (status' = "open" /\ stream.num_objects = 0) => read'.pos = 12]_vars

C18_Witness ==
    /\ status = "open"
    /\ stream.num_objects = 0
    /\ stream.len > 12
    /\ hist.n_calls >= 2
    /\ hist.last.tag = "None"
    /\ read.pos = 12

(***************************************************************************)
(* The decoder run on well-formed preambles declaring 10 entries.  The byte *)
(* source holds the preamble and room for two entries of the largest size,  *)
(* the deflate streams are one byte long, and next() is called three times. *)
(***************************************************************************)
WireEntries10 == {e \in WireEntries : e.csize = 1}

next10(e) ==
    /\ hist.n_calls < 3
    /\ next(e)

Next10 ==
    \/ \E v \in BOOLEAN : new_from_header(v)
    \/ \E e \in WireEntries10 : next10(e)
    \/ call_checksum

Streams10 ==
    [len         : {PreambleLen + 2 * (MaxHeaderSize + MaxCompressed)},
     magic_ok    : {TRUE},
     version     : {2},
     num_objects : {10},
     trailer_ok  : BOOLEAN]

Init10 ==
    /\ stream \in Streams10
    /\ status = "fresh"
    /\ read = NewReader([i \in 1 .. stream.len |-> i])
    /\ decompressor = NoInflate
    /\ offset = 0
    /\ had_error = FALSE
    /\ kind = "none"
    /\ objects_left = 0
    /\ hash = NoId
    /\ verify = FALSE
    /\ hist = NoHist
    /\ pt = PassThrough(NewReader(<<>>), <<>>)
    /\ pt_status = PTIdle

Spec10 == Init10 /\ [][Next10]_vars

\* C19 as stated: on a stream declaring 10 entries whose third pull fails
\* with an error, the decoder reports 9 remaining at that failure.
C19_NineRemaining ==
    (status = "open" /\ stream.num_objects = 10 /\ hist.n_calls = 3 /\ hist.last.tag = "Err")
        => size_hint = <<9, 9>>

\* C19 as amended: on a stream declaring 10 entries whose third pull fails
\* with an error, the decoder reports 7 remaining at that failure: the two
\* successful pulls and the failed one have each used one unit of the count.
C19_SevenRemaining ==
    (status = "open" /\ stream.num_objects = 10 /\ hist.n_calls = 3 /\ hist.last.tag = "Err")
        => (size_hint = <<7, 7>> /\ hist.n_ok = 2)

C19_Witness ==
    /\ status = "open"
    /\ stream.num_objects = 10
    /\ hist.n_calls = 3
    /\ hist.n_ok = 2
    /\ hist.last.tag = "Err"
    /\ had_error

====
